---- MODULE Spec2Model ----
(***************************************************************************)
(* A model of tar_data_collection.py: the CLEF eHealth TAR data collection *)
(* pipeline.  The file system (download_pids/, pids/, topic/, abs_qrel/,   *)
(* doc_qrel/, copora/, log.txt, title.txt), the spreadsheet and the        *)
(* curated relevance table are the state; every function of the script is  *)
(* a group of actions, one per loop iteration or step.  The OVID portal,   *)
(* the NCBI API and the Cochrane site are oracles fixed in the initial     *)
(* state.                                                                  *)
(***************************************************************************)
EXTENDS Integers, Sequences, FiniteSets, TLC

\* ------------------------------------------------------------------------
\* Program constants
\* ------------------------------------------------------------------------
DOWNLOAD_NUM_PER_TIME == 500

ABSTRACT_BATCH == 500

\* ------------------------------------------------------------------------
\* Bounds of the model
\* ------------------------------------------------------------------------
\* longest range(0, k) handed to chunks_by_element besides the named cases
MaxArrLen == 10
\* largest chunk size tried besides DOWNLOAD_NUM_PER_TIME
MaxChunk == 4
\* most full pages of DOWNLOAD_NUM_PER_TIME results a search reports
MaxPages == 2
\* most records in all the batches of download_pids/ together
MaxRecords == 3
\* most batch files in one topic's download directory
MaxFiles == 2
\* largest index a record declares
MaxIndex == 2
\* most rows of relevance_index.csv
MaxRows == 2
\* most lines of an identifier list
MaxPidLines == 3
\* most lines of a judgment file that statistics is given
MaxStatRows == 2
\* the latest request that the API is made to fail
MaxFailAt == 3

\* ------------------------------------------------------------------------
\* Python helpers
\* ------------------------------------------------------------------------
Min(a, b) == IF a < b THEN a ELSE b

\* range(a, b)
Range(a, b) == [i \in 1..(IF b > a THEN b - a ELSE 0) |-> a + i - 1]

\* range(0, len, n): 0, n, 2n, ... below len
RangeStep(len, n) == [k \in 1..((len + n - 1) \div n) |-> (k - 1) * n]

\* arr[i:j] for 0 <= i <= j (0-based, j clamped to len(arr))
Slice(arr, i, j) == SubSeq(arr, i + 1, Min(j, Len(arr)))

\* a slice that forgets to advance the upper end past i + n - 1
chunks_by_element_short(arr, n) ==
    [k \in 1..Len(RangeStep(Len(arr), n)) |->
        Slice(arr, RangeStep(Len(arr), n)[k], RangeStep(Len(arr), n)[k] + n - 1)]

\* [arr[i:i+n] for i in range(0, len(arr), n)]
chunks_by_element(arr, n) ==
    [k \in 1..Len(RangeStep(Len(arr), n)) |->
        Slice(arr, RangeStep(Len(arr), n)[k], RangeStep(Len(arr), n)[k] + n)]

RECURSIVE Concat(_)
Concat(ss) == IF ss = <<>> THEN <<>> ELSE Head(ss) \o Concat(Tail(ss))

\* all sequences over S of length at most n
SeqUpTo(S, n) == UNION {[1..k -> S] : k \in 0..n}

\* all orders in which a set can be enumerated (os.walk, dict.keys())
Perms(S) == {p \in [1..Cardinality(S) -> S] : \A i, j \in 1..Cardinality(S) : i # j => p[i] # p[j]}

\* ------------------------------------------------------------------------
\* The data of the model
\* ------------------------------------------------------------------------
\* topic ids of medline_ovid_search.xlsx (column A, as strings)
Topics == {"1", "2"}

\* a directory or file name that is no topic of the spreadsheet
StrayTopic == "9"

\* document identifiers (pubmed ids)
Pids == {"p1", "p2"}

\* creation dates, as the YYYYMMDD digits of the export
Dates == {20161231, 20170101, 20170615, 20171231, 20180101}

\* the rows of the spreadsheet: review id, date limit (column F), query
AllReviews ==
    [t \in Topics |->
        IF t = "1"
        THEN [review_doi |-> "CD1", date |-> <<20170101, 20171231>>, query |-> "q1"]
        ELSE [review_doi |-> "CD2", date |-> <<20161231, 20170615>>, query |-> "q2"]]

\* datetime.datetime.strptime(s, "%Y%m%d"): year, month, day
strptime(d) == <<d \div 10000, (d \div 100) % 100, d % 100>>

\* datetime's a < b
DateLt(a, b) ==
    \/ a[1] < b[1]
    \/ a[1] = b[1] /\ a[2] < b[2]
    \/ a[1] = b[1] /\ a[2] = b[2] /\ a[3] < b[3]

\* a function with one more (or one replaced) key
Put(f, k, v) == [x \in DOMAIN f \cup {k} |-> IF x = k THEN v ELSE f[x]]

\* the empty directory, the empty dict
Empty == [x \in {} |-> <<>>]

VARIABLES
    pc,             \* the statement the process is at
    err,            \* the exception that ended the process ("" while none)
    calls,          \* the functions __main__ has called so far, in order
    arr, n, ret,    \* chunks_by_element's arguments and result, called on its own
    dict_review,    \* medline_ovid_search.xlsx as read_ovid_search_file returns it
    portal,         \* what the OVID portal answers for each topic's query
    rel_csv,        \* the rows of relevance_index.csv
    site,           \* what the review's page answers for each topic's url
    api,            \* the request (counted from 1) the NCBI API fails, 0 for none
    download_pids,  \* download_pids/<topic>/: the exported batches, in name order
    pids,           \* pids/<topic>: the lines of the identifier list
    log,            \* log.txt
    title_txt,      \* title.txt
    topic_dir,      \* topic/<topic>
    abs_qrel,       \* abs_qrel/<topic>: the lines of the abstract-level judgments
    doc_qrel,       \* doc_qrel/<topic>: the lines of the document-level judgments
    corpora,        \* copora/<topic>/<block>
    todo,           \* what is left of the loop over topics of the running function
    cur,            \* the topic of the current iteration
    sessions,       \* browser sessions open
    events,         \* browser sessions opened and quit, and the pauses, in order
    exports,        \* the ranges submitted to the portal's Export control
    search_ret_num, \* download_pid_by_topic_id's search_ret_num
    list_range,     \* what is left of download_pid_by_topic_id's list_range
    pending,        \* the exception download_pid_by_topic_id's finally will re-raise
    qrel_type,      \* make_release_file's argument
    dict_rel,       \* make_release_file's dict_rel
    dict_title,     \* make_release_file's dict_title
    requests,       \* the id lists sent to the NCBI API, in order
    blocks,         \* what is left of download_abstract's loop over chunks
    stats,          \* statistics' list of per topic counts
    totals          \* statistics' grand totals, once computed

chunkVars == <<arr, n, ret>>

inputVars == <<dict_review, portal, rel_csv, site, api>>

ctlVars == <<pc, err, calls, todo, cur>>

collectorVars == <<sessions, events, exports, search_ret_num, list_range, pending>>

releaseVars == <<qrel_type, dict_rel, dict_title>>

abstractVars == <<requests, blocks>>

statsVars == <<stats, totals>>

fsVars == <<download_pids, pids, log, title_txt, topic_dir, abs_qrel, doc_qrel, corpora>>

vars == <<ctlVars, chunkVars, inputVars, fsVars, collectorVars, releaseVars, abstractVars,
          statsVars>>

\* the variables of the functions that are not running
ChunkIdle == arr = <<>> /\ n = 1 /\ ret = <<>>

CollectorIdle ==
    /\ sessions = 0
    /\ events = <<>>
    /\ exports = <<>>
    /\ search_ret_num = 0
    /\ list_range = <<>>
    /\ pending = ""

ReleaseIdle == qrel_type = "" /\ dict_rel = Empty /\ dict_title = Empty

AbstractIdle == requests = <<>> /\ blocks = <<>>

StatsIdle == stats = <<>> /\ totals = <<>>

LoopIdle == todo = <<>> /\ cur = ""

\* a checkout before any run: the directories check_existing makes are empty
FsEmpty ==
    /\ download_pids = Empty
    /\ pids = Empty
    /\ log = <<>>
    /\ title_txt = <<>>
    /\ topic_dir = Empty
    /\ abs_qrel = Empty
    /\ doc_qrel = Empty
    /\ corpora = Empty

\* no portal, site or table is consulted
InputsIdle ==
    /\ dict_review = AllReviews
    /\ portal = Empty
    /\ rel_csv = <<>>
    /\ site = Empty
    /\ api = 0

\* an uncaught exception: the traceback is printed and the process ends
Raise(e) == pc' = "crashed" /\ err' = e


\* ------------------------------------------------------------------------
\* chunks_by_element, called on its own
\* ------------------------------------------------------------------------
ChunkArrs == {Range(0, k) : k \in 0..MaxArrLen} \cup SeqUpTo({0, 1}, 3)

\* the sequences of the portal's size: 499, 500, 501, 1000 and 1001 items
ChunkBigArrs ==
    {Range(0, k * DOWNLOAD_NUM_PER_TIME + d) : k \in 1..2, d \in {0, 1}}
        \cup {Range(0, DOWNLOAD_NUM_PER_TIME - 1)}

ChunkSizes == (1..MaxChunk) \cup {DOWNLOAD_NUM_PER_TIME}

InitChunks ==
    /\ pc = "chunks_call"
    /\ err = ""
    /\ \/ arr \in ChunkArrs /\ n \in ChunkSizes
       \/ arr \in ChunkBigArrs /\ n = DOWNLOAD_NUM_PER_TIME
    /\ ret = <<>>
    /\ calls = <<>>
    /\ InputsIdle /\ FsEmpty /\ LoopIdle
    /\ CollectorIdle /\ ReleaseIdle /\ AbstractIdle /\ StatsIdle

CallChunks ==
    /\ pc = "chunks_call"
    /\ ret' = chunks_by_element(arr, n)
    /\ pc' = "chunks_ret"
    /\ UNCHANGED <<err, calls, todo, cur, arr, n, inputVars, fsVars, collectorVars, releaseVars,
                 abstractVars, statsVars>>

NextChunks == CallChunks

SpecChunks == InitChunks /\ [][NextChunks]_vars

\* C6: chunks_by_element(arr, n) returns consecutive slices whose
\* concatenation is arr; every chunk but the last has exactly n elements, the
\* last has 1..n, an empty sequence gives no chunk; 1000 by 500 gives 500,500;
\* 501 by 500 gives 500,1; range(10) by 3 gives 3,3,3,1.
C6_Chunks ==
    pc = "chunks_ret" =>
        /\ Concat(ret) = arr
        /\ \A k \in 1..Len(ret) : k < Len(ret) => Len(ret[k]) = n
        /\ ret # <<>> => Len(ret[Len(ret)]) \in 1..n
        /\ (arr = <<>>) <=> (ret = <<>>)
        /\ (Len(arr) = 1000 /\ n = 500) => [k \in 1..Len(ret) |-> Len(ret[k])] = <<500, 500>>
        /\ (Len(arr) = 501 /\ n = 500) => [k \in 1..Len(ret) |-> Len(ret[k])] = <<500, 1>>
        /\ (arr = Range(0, 10) /\ n = 3) =>
               ret = << <<0, 1, 2>>, <<3, 4, 5>>, <<6, 7, 8>>, <<9>> >>

C6_Witness ==
    /\ pc = "chunks_ret"
    /\ Len(arr) = 501
    /\ n = 500
    /\ Len(ret) = 2

\* ------------------------------------------------------------------------
\* PID Collector: batch_download_pid and download_pid_by_topic_id
\* ------------------------------------------------------------------------
\* the portal's records 1..k of a search, all inside the date limit
PortalRecs(k) == [i \in 1..k |-> [ui |-> "p1", date |-> 20170615]]

\* the numbers of results a search reports: none, one, and around full pages
ResultCounts == {0, 1} \cup {j * DOWNLOAD_NUM_PER_TIME + d : j \in 1..MaxPages, d \in {0, 1}}

NumChunks(k) == Len(chunks_by_element(Range(1, k + 1), DOWNLOAD_NUM_PER_TIME))

\* what the portal can do with a query: break while the query is submitted,
\* never show the result count, report a syntax error, or list recs; fail_at
\* is the export (counted from 1) whose controls are not found, 0 for none
PortalAnswers(counts) ==
    {[kind |-> "exc_submit", recs |-> <<>>, fail_at |-> 0],
     [kind |-> "timeout", recs |-> <<>>, fail_at |-> 0]}
        \cup {[kind |-> "syntax", recs |-> PortalRecs(k), fail_at |-> 0] : k \in counts}
        \cup UNION {{[kind |-> "ok", recs |-> PortalRecs(k), fail_at |-> f] :
                        f \in 0..NumChunks(k)} : k \in counts}

\* record_log: one entry appended to log.txt
record_log(topic_id, err_msg) == Append(log, [topic_id |-> topic_id, err_msg |-> err_msg])

\* the XML file the portal exports for the range lo-hi of a topic's results
ExportFile(t, lo, hi) ==
    [i \in 1..(hi - lo + 1) |->
        [inx |-> lo + i - 1, ui |-> portal[t].recs[lo + i - 1].ui,
         date |-> portal[t].recs[lo + i - 1].date]]

CollectorFrame ==
    UNCHANGED <<calls, chunkVars, inputVars, pids, title_txt, topic_dir, abs_qrel, doc_qrel,
                corpora, releaseVars, abstractVars, statsVars>>

\* batch_download_pid reads the spreadsheet and starts the loop over its keys
batch_download_pid ==
    /\ pc = "batch_download_pid"
    /\ \E order \in Perms(DOMAIN dict_review) : todo' = order
    /\ pc' = "bdp_loop"
    /\ UNCHANGED <<err, cur, download_pids, log, collectorVars>>
    /\ CollectorFrame

\* for topic_id in dict_review.keys()
bdp_loop ==
    /\ pc = "bdp_loop"
    /\ IF todo = <<>>
       THEN pc' = "ret_batch_download_pid" /\ UNCHANGED <<todo, cur>>
       ELSE pc' = "dp_open" /\ cur' = Head(todo) /\ todo' = Tail(todo)
    /\ UNCHANGED <<err, download_pids, log, collectorVars>>
    /\ CollectorFrame

\* the topic's download directory is made and a browser session started
dp_open ==
    /\ pc = "dp_open"
    /\ download_pids' =
           IF cur \in DOMAIN download_pids THEN download_pids
           ELSE Put(download_pids, cur, <<>>)
    /\ sessions' = sessions + 1
    /\ events' = Append(events, <<"open", cur>>)
    /\ search_ret_num' = 0
    /\ list_range' = <<>>
    /\ pending' = ""
    /\ pc' = "dp_submit"
    /\ UNCHANGED <<err, todo, cur, log, exports>>
    /\ CollectorFrame

\* the query is submitted and the result window selected, outside the try
dp_submit ==
    /\ pc = "dp_submit"
    /\ IF portal[cur].kind = "exc_submit"
       THEN Raise("WebDriverException")
       ELSE pc' = "dp_wait" /\ UNCHANGED err
    /\ UNCHANGED <<todo, cur, download_pids, log, collectorVars>>
    /\ CollectorFrame

\* a timed out result page that is logged and raised again
dp_wait_reraise ==
    /\ pc = "dp_wait"
    /\ IF portal[cur].kind = "timeout"
       THEN /\ log' = record_log(cur, "system timeout.")
            /\ pending' = "TimeoutException"
            /\ pc' = "dp_sleep"
            /\ UNCHANGED search_ret_num
       ELSE /\ search_ret_num' = Len(portal[cur].recs)
            /\ pc' = "dp_error"
            /\ UNCHANGED <<log, pending>>
    /\ UNCHANGED <<err, todo, cur, download_pids, sessions, events, exports, list_range>>
    /\ CollectorFrame

\* the wait for the result count: a timeout is logged and the function returns
dp_wait ==
    /\ pc = "dp_wait"
    /\ IF portal[cur].kind = "timeout"
       THEN /\ log' = record_log(cur, "system timeout.")
            /\ pc' = "dp_sleep"
            /\ UNCHANGED search_ret_num
       ELSE /\ search_ret_num' = Len(portal[cur].recs)
            /\ pc' = "dp_error"
            /\ UNCHANGED log
    /\ UNCHANGED <<err, todo, cur, download_pids, sessions, events, exports, list_range,
                   pending>>
    /\ CollectorFrame

\* result numbers cut into ranges without the last result
dp_error_short_range ==
    /\ pc = "dp_error"
    /\ IF portal[cur].kind = "syntax"
       THEN /\ log' = record_log(cur, "syntax error")
            /\ pc' = "dp_sleep"
            /\ UNCHANGED list_range
       ELSE /\ list_range' =
                   chunks_by_element(Range(1, search_ret_num), DOWNLOAD_NUM_PER_TIME)
            /\ pc' = "dp_export"
            /\ UNCHANGED log
    /\ UNCHANGED <<err, todo, cur, download_pids, sessions, events, exports, search_ret_num,
                   pending>>
    /\ CollectorFrame

\* the portal's syntax error is logged and the function returns; without one
\* the result numbers are cut into ranges of DOWNLOAD_NUM_PER_TIME
dp_error ==
    /\ pc = "dp_error"
    /\ IF portal[cur].kind = "syntax"
       THEN /\ log' = record_log(cur, "syntax error")
            /\ pc' = "dp_sleep"
            /\ UNCHANGED list_range
       ELSE /\ list_range' =
                   chunks_by_element(Range(1, search_ret_num + 1), DOWNLOAD_NUM_PER_TIME)
            /\ pc' = "dp_export"
            /\ UNCHANGED log
    /\ UNCHANGED <<err, todo, cur, download_pids, sessions, events, exports, search_ret_num,
                   pending>>
    /\ CollectorFrame

\* for item in list_range: one range is exported, or a control is not found
dp_export ==
    /\ pc = "dp_export"
    /\ IF list_range = <<>>
       THEN pc' = "dp_sleep" /\ UNCHANGED <<download_pids, exports, list_range, pending>>
       ELSE LET item == Head(list_range)
                k == NumChunks(search_ret_num) - Len(list_range) + 1
            IN  IF portal[cur].fail_at = k
                THEN /\ pending' = "NoSuchElementException"
                     /\ pc' = "dp_sleep"
                     /\ UNCHANGED <<download_pids, exports, list_range>>
                ELSE /\ exports' =
                            Append(exports,
                                   [topic |-> cur, lo |-> item[1], hi |-> item[Len(item)]])
                     /\ download_pids' =
                            [download_pids EXCEPT
                                ![cur] = Append(@, ExportFile(cur, item[1], item[Len(item)]))]
                     /\ list_range' = Tail(list_range)
                     /\ pc' = "dp_export"
                     /\ UNCHANGED pending
    /\ UNCHANGED <<err, todo, cur, log, sessions, events, search_ret_num>>
    /\ CollectorFrame

\* finally: sleep(30)
dp_sleep ==
    /\ pc = "dp_sleep"
    /\ events' = Append(events, <<"sleep", cur>>)
    /\ pc' = "dp_quit"
    /\ UNCHANGED <<err, todo, cur, download_pids, log, sessions, exports, search_ret_num,
                   list_range, pending>>
    /\ CollectorFrame

\* finally: driver.quit(), then the return or the exception on its way out
dp_quit ==
    /\ pc = "dp_quit"
    /\ events' = Append(events, <<"quit", cur>>)
    /\ sessions' = sessions - 1
    /\ IF pending # "" THEN Raise(pending) ELSE pc' = "bdp_loop" /\ UNCHANGED err
    /\ UNCHANGED <<todo, cur, download_pids, log, exports, search_ret_num, list_range,
                   pending>>
    /\ CollectorFrame

download_pid_by_topic_id ==
    \/ dp_open
    \/ dp_submit
    \/ dp_wait
    \/ dp_error
    \/ dp_export
    \/ dp_sleep
    \/ dp_quit

InitCollector ==
    /\ pc = "batch_download_pid"
    /\ err = ""
    /\ calls = <<>>
    /\ ChunkIdle /\ FsEmpty /\ LoopIdle
    /\ CollectorIdle /\ ReleaseIdle /\ AbstractIdle /\ StatsIdle
    /\ dict_review = AllReviews
    /\ portal \in [Topics -> PortalAnswers(ResultCounts)]
    /\ rel_csv = <<>>
    /\ site = Empty
    /\ api = 0

NextCollector == batch_download_pid \/ bdp_loop \/ download_pid_by_topic_id

SpecCollector == InitCollector /\ [][NextCollector]_vars

\* how often x occurs in a sequence
Count(seq, x) == Cardinality({i \in 1..Len(seq) : seq[i] = x})

LogEntries(t) == {i \in 1..Len(log) : log[i].topic_id = t}

\* the topics whose result page times out or whose query the portal rejects
Rejected == {t \in DOMAIN portal : portal[t].kind \in {"timeout", "syntax"}}

\* C8: a topic whose result page times out or whose query has a syntax error
\* gets exactly one log entry, no export and no second attempt, and the loop
\* goes on to the next topic: such a topic never ends the run, and a run none
\* of whose topics raises an exception visits every topic.
C8_ErrorSkipsTopic ==
    /\ \A t \in Rejected :
          /\ Cardinality(LogEntries(t)) <= 1
          /\ Count(events, <<"sleep", t>>) = 1 => Cardinality(LogEntries(t)) = 1
          /\ Count(events, <<"open", t>>) <= 1
          /\ Count(events, <<"sleep", t>>) <= 1
          /\ \A i \in 1..Len(exports) : exports[i].topic # t
          /\ t \in DOMAIN download_pids => download_pids[t] = <<>>
          /\ (pc = "crashed" => cur # t)
          /\ (cur = t /\ pc = "dp_quit") => pending = ""
    /\ \A i \in 1..Len(log) : log[i].topic_id \in Rejected
    /\ pc = "ret_batch_download_pid" =>
          \A t \in DOMAIN dict_review : Count(events, <<"quit", t>>) = 1
    /\ (\A t \in DOMAIN portal : t \in Rejected \/ (portal[t].kind = "ok" /\ portal[t].fail_at = 0))
          => (pc # "crashed" /\ (pc # "ret_batch_download_pid" => ENABLED NextCollector))

\* a rejected topic came first, was logged once and left, and a later topic
\* exported its results
C8_Witness ==
    /\ pc = "ret_batch_download_pid"
    /\ \E t \in Rejected, u \in DOMAIN portal :
          /\ events[1] = <<"open", t>>
          /\ Cardinality(LogEntries(t)) = 1
          /\ \E i \in 1..Len(exports) : exports[i].topic = u

\* ------------------------------------------------------------------------
\* PID Extractor: extract_pid
\* ------------------------------------------------------------------------
\* a date test that lets the two ends of the limit through
InWindowInclusive(date, limit) ==
    /\ ~DateLt(strptime(limit[2]), strptime(date))
    /\ ~DateLt(strptime(date), strptime(limit[1]))

\* test_date < end_date and test_date > start_date, on the parsed dates
InWindow(date, limit) ==
    /\ DateLt(strptime(date), strptime(limit[2]))
    /\ DateLt(strptime(limit[1]), strptime(date))

\* the (inx, ui) pairs one batch file adds to list_ret, in document order
FileRet(file, limit) ==
    LET Keep(r) == InWindow(r.date, limit)
        kept == SelectSeq(file, Keep)
    IN  [i \in 1..Len(kept) |-> [inx |-> kept[i].inx, ui |-> kept[i].ui]]

\* list_ret after the loop over the topic's files, enumerated in `order`
ListRet(files, order, limit) == Concat([k \in 1..Len(order) |-> FileRet(files[order[k]], limit)])

\* a list put in place: x goes behind every item whose index is not larger
InsertByInx(sorted, x) ==
    LET k == Cardinality({i \in 1..Len(sorted) : sorted[i].inx <= x.inx})
    IN  SubSeq(sorted, 1, k) \o <<x>> \o SubSeq(sorted, k + 1, Len(sorted))

\* a list left as it was collected
sort_by_inx_none(list) == list

RECURSIVE sort_by_inx_desc(_)
\* a sort with the largest index first
sort_by_inx_desc(list) ==
    IF list = <<>> THEN <<>>
    ELSE LET x == list[Len(list)]
             rest == sort_by_inx_desc(SubSeq(list, 1, Len(list) - 1))
             k == Cardinality({i \in 1..Len(rest) : rest[i].inx >= x.inx})
         IN  SubSeq(rest, 1, k) \o <<x>> \o SubSeq(rest, k + 1, Len(rest))

RECURSIVE InsertionSort(_)
InsertionSort(list) ==
    IF list = <<>> THEN <<>>
    ELSE InsertByInx(InsertionSort(SubSeq(list, 1, Len(list) - 1)), list[Len(list)])

\* list_ret.sort(key=itemgetter(0)): ascending by index, stable
sort_by_inx(list) == InsertionSort(list)

\* the lines written to pids/<topic>
PidLines(files, order, limit) ==
    LET sorted == sort_by_inx(ListRet(files, order, limit))
    IN  [i \in 1..Len(sorted) |-> sorted[i].ui]

ExtractFrame ==
    UNCHANGED <<calls, chunkVars, inputVars, download_pids, log, title_txt, topic_dir,
                abs_qrel, doc_qrel, corpora, collectorVars, releaseVars, abstractVars,
                statsVars>>

\* extract_pid reads the spreadsheet and starts the loop over get_dirs
extract_pid ==
    /\ pc = "extract_pid"
    /\ \E order \in Perms(DOMAIN download_pids) : todo' = order
    /\ pc' = "ex_loop"
    /\ UNCHANGED <<err, cur, pids>>
    /\ ExtractFrame

\* for topic_id in get_dirs(DOWNLOAD_PIDS_DIR): the topic's files are read in
\* the order get_file_ids lists them, the retained pairs sorted and the
\* identifiers written; the date limit of a directory that is no topic of the
\* spreadsheet is a KeyError
ex_topic ==
    /\ pc = "ex_loop"
    /\ todo # <<>>
    /\ cur' = Head(todo)
    /\ todo' = Tail(todo)
    /\ \E order \in Perms(1..Len(download_pids[cur'])) :
          IF download_pids[cur'] # <<>> /\ cur' \notin DOMAIN dict_review
          THEN Raise("KeyError") /\ UNCHANGED pids
          ELSE /\ pids' =
                     Put(pids, cur',
                         IF download_pids[cur'] = <<>> THEN <<>>
                         ELSE PidLines(download_pids[cur'], order, dict_review[cur'].date))
               /\ pc' = "ex_loop"
               /\ UNCHANGED err
    /\ ExtractFrame

\* the loop is over: extract_pid returns
ex_return ==
    /\ pc = "ex_loop"
    /\ todo = <<>>
    /\ pc' = "ret_extract_pid"
    /\ UNCHANGED <<err, todo, cur, pids>>
    /\ ExtractFrame

\* the operator runs extract_pid again on the same downloads
extract_pid_again ==
    /\ pc = "ret_extract_pid"
    /\ pc' = "extract_pid"
    /\ UNCHANGED <<err, todo, cur, pids>>
    /\ ExtractFrame

RECURSIVE Sum(_)
Sum(seq) == IF seq = <<>> THEN 0 ELSE Head(seq) + Sum(Tail(seq))

\* the ways to lay k records out over a topic's batch files: their lengths
FileLayouts(k) == {ls \in SeqUpTo(0..k, MaxFiles) : Sum(ls) = k}

\* the batch files that hold the records of flat, cut as ls says
Cut(flat, ls) ==
    [f \in 1..Len(ls) |->
        SubSeq(flat, Sum(SubSeq(ls, 1, f - 1)) + 1, Sum(SubSeq(ls, 1, f)))]

\* up to k records of a set, laid out over at most two batch files
TwoBatches(records, k) ==
    UNION {{Cut(flat, ls) : flat \in [1..j -> records], ls \in {l \in FileLayouts(j) : Len(l) <= 2}} :
              j \in 0..k}

\* the download directories tried for a topic:
\* one batch of up to MaxRecords records that differ in identifier and date;
DateBatches == {<<flat>> : flat \in SeqUpTo([inx : {1}, ui : Pids, date : Dates], MaxRecords)}

\* up to MaxRecords records of index 1 or 2 inside the first topic's limit,
\* in one or two batches;
OrderBatches == TwoBatches([inx : 1..2, ui : Pids, date : {20170615}], MaxRecords)

\* up to MaxFiles batches of one record each, of any index, dated inside one
\* topic's limit and on its end for the other
EnumBatches ==
    {[f \in 1..Len(flat) |-> <<flat[f]>>] :
        flat \in SeqUpTo([inx : 1..MaxIndex, ui : Pids, date : {20170101, 20170615}], MaxFiles)}

TopicBatches == DateBatches \cup OrderBatches \cup EnumBatches

\* a directory under download_pids/ that is no topic, empty or with a batch
StrayDirs == {<<>>, << <<[inx |-> 1, ui |-> "p1", date |-> 20170615]>> >>}

\* download_pids/ with the batches b in the directory of topic t and the
\* directories of the other topics empty
Downloaded(t, b) == [x \in Topics |-> IF x = t THEN b ELSE <<>>]

InitExtract ==
    /\ pc = "extract_pid"
    /\ err = ""
    /\ calls = <<>>
    /\ ChunkIdle /\ LoopIdle
    /\ CollectorIdle /\ ReleaseIdle /\ AbstractIdle /\ StatsIdle
    /\ InputsIdle
    /\ \E t \in Topics :
          \/ \E b \in TopicBatches : download_pids = Downloaded(t, b)
          \/ \E s \in StrayDirs :
                download_pids =
                    Put(Downloaded(t, << <<[inx |-> 1, ui |-> "p2", date |-> 20170615]>> >>),
                        StrayTopic, s)
    /\ pids = Empty
    /\ log = <<>>
    /\ title_txt = <<>>
    /\ topic_dir = Empty
    /\ abs_qrel = Empty
    /\ doc_qrel = Empty
    /\ corpora = Empty

NextExtract == extract_pid \/ ex_topic \/ ex_return \/ extract_pid_again

SpecExtract == InitExtract /\ [][NextExtract]_vars

\* the records of a topic's batches, as (file, position) pairs
Occ(t) ==
    {o \in (1..Len(download_pids[t])) \X (1..MaxRecords) : o[2] <= Len(download_pids[t][o[1]])}

Rec(t, o) == download_pids[t][o[1]][o[2]]

\* the date lies strictly between the ends of the topic's limit
StrictlyInside(t, o) ==
    /\ dict_review[t].date[1] < Rec(t, o).date
    /\ Rec(t, o).date < dict_review[t].date[2]

\* the topics whose identifier list extract_pid has written
Written == DOMAIN pids \cap DOMAIN dict_review

\* C1: an identifier is written to a topic's list once for every record that
\* carries it and whose creation date d has start < d < end, and for no other
\* record: a record dated on the start or on the end of the limit is left
\* out, and of records dated 20161231, 20170615 and 20180101 under the limit
\* 20170101-20171231 only the one of 20170615 is kept.
C1_DateFilter ==
    \A t \in Written :
        /\ \A u \in Pids :
              Count(pids[t], u) =
                  Cardinality({o \in Occ(t) : Rec(t, o).ui = u /\ StrictlyInside(t, o)})
        /\ \A i \in 1..Len(pids[t]) : pids[t][i] \in Pids
        /\ (/\ dict_review[t].date = <<20170101, 20171231>>
            /\ {Rec(t, o).date : o \in Occ(t)} = {20161231, 20170615, 20180101}
            /\ Cardinality(Occ(t)) = 3)
             => \E o \in Occ(t) : Rec(t, o).date = 20170615 /\ pids[t] = <<Rec(t, o).ui>>

\* a topic with a record on the start, one on the end and one inside its
\* limit, of which only the one inside was written
C1_Witness ==
    \E t \in Written :
        /\ \E o \in Occ(t) : Rec(t, o).date = dict_review[t].date[1]
        /\ \E o \in Occ(t) : Rec(t, o).date = dict_review[t].date[2]
        /\ \E o \in Occ(t) : StrictlyInside(t, o) /\ pids[t] = <<Rec(t, o).ui>>

\* the retained records of a topic
Retained(t) == {o \in Occ(t) : StrictlyInside(t, o)}

\* C4: the identifier list holds one line for every retained record of every
\* batch of the topic, in ascending order of the declared index, and nothing
\* is deduplicated: an identifier retained k times is written k times.
C4_SortedNoDedup ==
    \A t \in Written :
        /\ Len(pids[t]) = Cardinality(Retained(t))
        /\ \A i \in 0..MaxIndex, u \in Pids :
              Count(SubSeq(pids[t], 1, Cardinality({o \in Retained(t) : Rec(t, o).inx <= i})), u)
                  = Cardinality({o \in Retained(t) : Rec(t, o).inx <= i /\ Rec(t, o).ui = u})

\* an identifier retained in two batches is written twice, behind a record of
\* a smaller index that the later batch holds
C4_Witness ==
    \E t \in Written :
        /\ Len(download_pids[t]) = 2
        /\ Len(pids[t]) = 3
        /\ pids[t][2] = pids[t][3]
        /\ pids[t][1] # pids[t][2]
        /\ \E o \in Retained(t) : o[1] = 2 /\ Rec(t, o).inx = 1 /\ Rec(t, o).ui = pids[t][1]
        /\ \E o \in Retained(t) : o[1] = 1 /\ Rec(t, o).inx = 2 /\ Rec(t, o).ui = pids[t][2]
        /\ \E o \in Retained(t) : o[1] = 2 /\ Rec(t, o).inx = 2 /\ Rec(t, o).ui = pids[t][2]

\* the written list is what every enumeration of the topic's files gives
OrderFree(t) ==
    \A order \in Perms(1..Len(download_pids[t])) :
        download_pids[t] # <<>> =>
            pids[t] = PidLines(download_pids[t], order, dict_review[t].date)

\* retained records of different batches that declare one index carry one
\* identifier
NoCrossTies(t) ==
    \A o1, o2 \in Retained(t) :
        (o1[1] # o2[1] /\ Rec(t, o1).inx = Rec(t, o2).inx) => Rec(t, o1).ui = Rec(t, o2).ui

\* C5 as stated: the list extract_pid writes, in a first or in a repeated
\* run, does not depend on the order in which the topic's batch files are
\* enumerated, whatever indexes the records declare.
C5_OrderFreeAlways == \A t \in Written : OrderFree(t)

\* C5, amended: the list does not depend on the enumeration order of the
\* batch files, in a first or in a repeated run, when retained records of
\* different batches that declare the same index carry the same identifier.
C5_OrderFreeWithoutTies == \A t \in Written : NoCrossTies(t) => OrderFree(t)

\* a second run has rewritten the list of a topic whose two batches hold
\* records in the reverse of their index order
C5_Witness ==
    /\ pc = "ret_extract_pid"
    /\ \E t \in Written :
          /\ NoCrossTies(t)
          /\ Len(download_pids[t]) = 2
          /\ \E o1, o2 \in Retained(t) :
                /\ o1[1] = 1 /\ o2[1] = 2
                /\ Rec(t, o1).inx > Rec(t, o2).inx
                /\ pids[t] = <<Rec(t, o2).ui, Rec(t, o1).ui>>
                /\ Rec(t, o1).ui # Rec(t, o2).ui

\* ------------------------------------------------------------------------
\* __main__: the calls of the entry point, one action per call
\* ------------------------------------------------------------------------
MainFrame ==
    UNCHANGED <<err, todo, cur, chunkVars, inputVars, fsVars, collectorVars, dict_rel,
                dict_title, abstractVars, statsVars>>

\* check_existing(), then batch_download_pid()
main_collect ==
    /\ pc = "main"
    /\ calls' = calls \o <<"check_existing", "batch_download_pid">>
    /\ pc' = "batch_download_pid"
    /\ UNCHANGED qrel_type
    /\ MainFrame

\* extract_pid()
main_extract ==
    /\ pc = "ret_batch_download_pid"
    /\ calls' = Append(calls, "extract_pid")
    /\ pc' = "extract_pid"
    /\ UNCHANGED qrel_type
    /\ MainFrame

\* batch_download_title()
main_title ==
    /\ pc = "ret_extract_pid"
    /\ calls' = Append(calls, "batch_download_title")
    /\ pc' = "batch_download_title"
    /\ UNCHANGED qrel_type
    /\ MainFrame

\* make_release_file('topic')
main_release_topic ==
    /\ pc = "ret_batch_download_title"
    /\ calls' = Append(calls, "make_release_file('topic')")
    /\ qrel_type' = "topic"
    /\ pc' = "make_release_file"
    /\ MainFrame

\* make_release_file('abs')
main_release_abs ==
    /\ pc = "ret_make_release_file"
    /\ qrel_type = "topic"
    /\ calls' = Append(calls, "make_release_file('abs')")
    /\ qrel_type' = "abs"
    /\ pc' = "make_release_file"
    /\ MainFrame

\* make_release_file('doc')
main_release_doc ==
    /\ pc = "ret_make_release_file"
    /\ qrel_type = "abs"
    /\ calls' = Append(calls, "make_release_file('doc')")
    /\ qrel_type' = "doc"
    /\ pc' = "make_release_file"
    /\ MainFrame

\* download_abstract()
main_abstract ==
    /\ pc = "ret_make_release_file"
    /\ qrel_type = "doc"
    /\ calls' = Append(calls, "download_abstract")
    /\ pc' = "download_abstract"
    /\ UNCHANGED qrel_type
    /\ MainFrame

\* statistics()
main_statistics ==
    /\ pc = "ret_download_abstract"
    /\ calls' = Append(calls, "statistics")
    /\ pc' = "statistics"
    /\ UNCHANGED qrel_type
    /\ MainFrame

\* the end of the script
main_exit ==
    /\ pc = "ret_statistics"
    /\ pc' = "exit"
    /\ UNCHANGED <<calls, qrel_type>>
    /\ MainFrame

\* ------------------------------------------------------------------------
\* title download: batch_download_title and download_title_by_url
\* ------------------------------------------------------------------------
TitleFrame ==
    UNCHANGED <<calls, chunkVars, inputVars, download_pids, pids, log, topic_dir, abs_qrel,
                doc_qrel, corpora, exports, search_ret_num, list_range, pending, releaseVars,
                abstractVars, statsVars>>

\* batch_download_title reads the spreadsheet, empties title.txt and starts
\* the loop over the spreadsheet's keys
batch_download_title ==
    /\ pc = "batch_download_title"
    /\ title_txt' = <<>>
    /\ \E order \in Perms(DOMAIN dict_review) : todo' = order
    /\ pc' = "bt_loop"
    /\ UNCHANGED <<err, cur, sessions, events>>
    /\ TitleFrame

\* one topic of the loop: download_title_by_url starts a browser, gets the
\* page, reads the header (which can be missing) and quits the browser; the
\* title is appended to title.txt
download_title_by_url ==
    /\ pc = "bt_loop"
    /\ todo # <<>>
    /\ cur' = Head(todo)
    /\ todo' = Tail(todo)
    /\ IF site[cur'] = "exc"
       THEN /\ Raise("NoSuchElementException")
            /\ sessions' = sessions + 1
            /\ events' = Append(events, <<"open", cur'>>)
            /\ UNCHANGED title_txt
       ELSE /\ events' = events \o << <<"open", cur'>>, <<"quit", cur'>> >>
            /\ title_txt' = Append(title_txt, <<cur', site[cur']>>)
            /\ pc' = "bt_loop"
            /\ UNCHANGED <<err, sessions>>
    /\ TitleFrame

\* the loop is over: batch_download_title returns
bt_return ==
    /\ pc = "bt_loop"
    /\ todo = <<>>
    /\ pc' = "ret_batch_download_title"
    /\ UNCHANGED <<err, todo, cur, title_txt, sessions, events>>
    /\ TitleFrame

\* ------------------------------------------------------------------------
\* Release Builder: read_clef_rel, read_title and make_release_file
\* ------------------------------------------------------------------------
Kinds == {"topic", "abs", "doc"}

Labels == {"included", "excluded", "other"}

\* the value a row's label stands for, -1 for a row that is passed over;
\* here the document-level branch is a copy of the abstract-level one
ref_type_copied(kind, label) ==
    IF label = "included" THEN 1
    ELSE IF label = "excluded" THEN 1
    ELSE -1

\* the value a row's label stands for, -1 for a row that is passed over;
\* here the two kinds of judgment have changed places
ref_type_swapped(kind, label) ==
    IF kind = "doc"
    THEN IF label = "included" THEN 1
         ELSE IF label = "excluded" THEN 1
         ELSE -1
    ELSE IF label = "included" THEN 1
         ELSE IF label = "excluded" THEN 0
         ELSE -1

\* the value a row's label stands for, -1 for a row that is passed over
ref_type(kind, label) ==
    IF kind = "abs"
    THEN IF label = "included" THEN 1
         ELSE IF label = "excluded" THEN 1
         ELSE -1
    ELSE IF label = "included" THEN 1
         ELSE IF label = "excluded" THEN 0
         ELSE -1

\* dict_rel[review_doi][pubmed_id] = v
SetRel(rel, doi, pid, v) ==
    Put(rel, doi, Put(IF doi \in DOMAIN rel THEN rel[doi] ELSE Empty, pid, v))

RECURSIVE read_rows(_, _, _)
\* for row in reader
read_rows(rows, kind, rel) ==
    IF rows = <<>> THEN rel
    ELSE LET row == Head(rows)
             v == ref_type(kind, row.ref_type)
         IN  read_rows(Tail(rows), kind,
                       IF v = -1 THEN rel ELSE SetRel(rel, row.review_doi, row.pubmed_id, v))

\* read_clef_rel(qrel_type): any other kind than 'abs' and 'doc' breaks out
\* of the loop at the first row
read_clef_rel(kind) == IF kind \in {"abs", "doc"} THEN read_rows(rel_csv, kind, Empty) ELSE Empty

RECURSIVE read_title_lines(_, _)
read_title_lines(lines, titles) ==
    IF lines = <<>> THEN titles
    ELSE read_title_lines(Tail(lines), Put(titles, Head(lines)[1], Head(lines)[2]))

\* read_title(): the lines of title.txt, split at '|||'
read_title == read_title_lines(title_txt, Empty)

\* dict_rel[review_doi].get(item, 0) on a defaultdict(dict)
rel_get(rel, doi, pid) ==
    IF doi \in DOMAIN rel /\ pid \in DOMAIN rel[doi] THEN rel[doi][pid] ELSE 0

\* a list returned with its duplicates
dedup_none(lines) == lines

\* list_boolean: the lines of the identifier list, a line appended when it is
\* not in local, that is, when no line before it is the same
dedup(lines) ==
    LET kept == SelectSeq([i \in 1..Len(lines) |-> i],
                          LAMBDA i : \A j \in 1..(i - 1) : lines[j] # lines[i])
    IN  [k \in 1..Len(kept) |-> lines[kept[k]]]

\* the lines of a judgment file: review id, 0, identifier, relevance flag
qrel_lines(rel, doi, list_boolean) ==
    [i \in 1..Len(list_boolean) |->
        [review |-> doi, iteration |-> 0, pid |-> list_boolean[i],
         rel |-> rel_get(rel, doi, list_boolean[i])]]

ReleaseFrame ==
    UNCHANGED <<calls, chunkVars, inputVars, download_pids, pids, log, title_txt, corpora,
                collectorVars, qrel_type, abstractVars, statsVars>>

\* make_release_file reads the table, the spreadsheet and the titles, and
\* starts the loop over get_file_ids(PIDS_DIR)
make_release_file ==
    /\ pc = "make_release_file"
    /\ dict_rel' = read_clef_rel(qrel_type)
    /\ dict_title' = read_title
    /\ \E order \in Perms(DOMAIN pids) : todo' = order
    /\ pc' = "mr_loop"
    /\ UNCHANGED <<err, cur, topic_dir, abs_qrel, doc_qrel>>
    /\ ReleaseFrame

\* a loop body that passes over a file that is no topic of the spreadsheet
mr_topic_skip ==
    /\ pc = "mr_loop"
    /\ todo # <<>>
    /\ cur' = Head(todo)
    /\ todo' = Tail(todo)
    /\ pc' = "mr_loop"
    /\ IF cur' \notin DOMAIN dict_review
       THEN UNCHANGED <<topic_dir, abs_qrel, doc_qrel>>
       ELSE LET list_boolean == dedup(pids[cur'])
                review_doi == dict_review[cur'].review_doi
            IN  /\ abs_qrel' =
                       IF qrel_type = "abs"
                       THEN Put(abs_qrel, cur', qrel_lines(dict_rel, review_doi, list_boolean))
                       ELSE abs_qrel
                /\ doc_qrel' =
                       IF qrel_type = "doc"
                       THEN Put(doc_qrel, cur', qrel_lines(dict_rel, review_doi, list_boolean))
                       ELSE doc_qrel
                /\ topic_dir' =
                       IF qrel_type = "topic"
                       THEN Put(topic_dir, cur',
                                [topic |-> review_doi, title |-> dict_title[cur'],
                                 query |-> dict_review[cur'].query, pids |-> list_boolean])
                       ELSE topic_dir
    /\ UNCHANGED <<err, dict_rel, dict_title>>
    /\ ReleaseFrame

\* for topic_id in get_file_ids(PIDS_DIR): the assertion, the deduplicated
\* identifier list, the title, and the file of the kind asked for
mr_topic ==
    /\ pc = "mr_loop"
    /\ todo # <<>>
    /\ cur' = Head(todo)
    /\ todo' = Tail(todo)
    /\ IF cur' \notin DOMAIN dict_review
       THEN Raise("AssertionError") /\ UNCHANGED <<topic_dir, abs_qrel, doc_qrel>>
       ELSE IF cur' \notin DOMAIN dict_title
       THEN Raise("KeyError") /\ UNCHANGED <<topic_dir, abs_qrel, doc_qrel>>
       ELSE LET list_boolean == dedup(pids[cur'])
                review_doi == dict_review[cur'].review_doi
            IN  /\ abs_qrel' =
                       IF qrel_type = "abs"
                       THEN Put(abs_qrel, cur', qrel_lines(dict_rel, review_doi, list_boolean))
                       ELSE abs_qrel
                /\ doc_qrel' =
                       IF qrel_type = "doc"
                       THEN Put(doc_qrel, cur', qrel_lines(dict_rel, review_doi, list_boolean))
                       ELSE doc_qrel
                /\ topic_dir' =
                       IF qrel_type = "topic"
                       THEN Put(topic_dir, cur',
                                [topic |-> review_doi, title |-> dict_title[cur'],
                                 query |-> dict_review[cur'].query, pids |-> list_boolean])
                       ELSE topic_dir
                /\ pc' = "mr_loop"
                /\ UNCHANGED err
    /\ UNCHANGED <<dict_rel, dict_title>>
    /\ ReleaseFrame

\* the loop is over: make_release_file returns
mr_return ==
    /\ pc = "mr_loop"
    /\ todo = <<>>
    /\ pc' = "ret_make_release_file"
    /\ UNCHANGED <<err, todo, cur, topic_dir, abs_qrel, doc_qrel, dict_rel, dict_title>>
    /\ ReleaseFrame

\* the rows of the curated table
Rows == [review_doi : {AllReviews[t].review_doi : t \in Topics}, pubmed_id : Pids,
         ref_type : Labels]

\* title.txt as batch_download_title leaves it
TitleLines(order) == [i \in 1..Len(order) |-> <<order[i], "title">>]

\* the identifier lists and tables tried: any table with a list of one or two
\* identifiers, any list with an empty or a one row table, and a list that
\* belongs to no topic of the spreadsheet beside the lists of the topics
InitRelease ==
    /\ pc = "make_release_file"
    /\ err = ""
    /\ calls = <<>>
    /\ ChunkIdle /\ LoopIdle
    /\ CollectorIdle /\ AbstractIdle /\ StatsIdle
    /\ qrel_type \in Kinds
    /\ dict_rel = Empty
    /\ dict_title = Empty
    /\ dict_review = AllReviews
    /\ portal = Empty
    /\ site = Empty
    /\ api = 0
    /\ \E t \in Topics :
          \/ /\ rel_csv \in SeqUpTo(Rows, MaxRows)
             /\ pids \in {[x \in {t} |-> l] : l \in {<<"p1">>, <<"p1", "p2">>}}
          \/ /\ rel_csv \in {<<>>, <<[review_doi |-> AllReviews[t].review_doi,
                                     pubmed_id |-> "p1", ref_type |-> "included"]>>}
             /\ pids \in {[x \in Topics |-> IF x = t THEN l ELSE <<"p2">>] :
                            l \in SeqUpTo(Pids, MaxPidLines)}
          \/ /\ rel_csv = <<>>
             /\ pids \in {[x \in {t, StrayTopic} |-> <<"p1">>],
                          [x \in Topics \cup {StrayTopic} |-> <<"p1">>]}
    /\ download_pids = Empty
    /\ log = <<>>
    /\ title_txt = TitleLines(<<"1", "2">>)
    /\ topic_dir = Empty
    /\ abs_qrel = Empty
    /\ doc_qrel = Empty
    /\ corpora = Empty

NextRelease ==
    \/ make_release_file
    \/ mr_topic
    \/ mr_return
    \/ main_release_abs
    \/ main_release_doc

SpecRelease == InitRelease /\ [][NextRelease]_vars

\* the rows of the table that judge a pair
Judging(doi, pid) ==
    {i \in 1..Len(rel_csv) :
        /\ rel_csv[i].review_doi = doi
        /\ rel_csv[i].pubmed_id = pid
        /\ rel_csv[i].ref_type \in {"included", "excluded"}}

\* the label of the pair's judgment: of the last row that judges it
Judgment(doi, pid) ==
    IF Judging(doi, pid) = {} THEN "none"
    ELSE rel_csv[CHOOSE i \in Judging(doi, pid) : \A j \in Judging(doi, pid) : j <= i].ref_type

FlagOf(kind, judgment) ==
    IF judgment = "included" THEN 1
    ELSE IF judgment = "excluded" /\ kind = "abs" THEN 1
    ELSE 0

FlagsAsJudged(kind, lines) ==
    \A i \in 1..Len(lines) :
        /\ lines[i].rel = FlagOf(kind, Judgment(lines[i].review, lines[i].pid))
        /\ lines[i].rel \in {0, 1}
        /\ lines[i].iteration = 0

\* C2: the flag of a line is decided by the table and the kind of judgment:
\* a pair judged 'excluded' has 1 in the abstract-level and 0 in the
\* document-level file, a pair judged 'included' has 1 in both, a row with
\* another label counts as no row, a pair without judgment has 0; every flag
\* is 0 or 1.  (Of several rows that judge one pair the last decides.)
C2_Flags ==
    /\ \A t \in DOMAIN abs_qrel :
          /\ FlagsAsJudged("abs", abs_qrel[t])
          /\ \A i \in 1..Len(abs_qrel[t]) : abs_qrel[t][i].review = dict_review[t].review_doi
    /\ \A t \in DOMAIN doc_qrel :
          /\ FlagsAsJudged("doc", doc_qrel[t])
          /\ \A i \in 1..Len(doc_qrel[t]) : doc_qrel[t][i].review = dict_review[t].review_doi

\* a pair judged 'excluded' by its only row has 1 in the abstract-level and 0
\* in the document-level file, beside a pair that a row of another label
\* leaves at 0
C2_Witness ==
    \E t \in DOMAIN abs_qrel \cap DOMAIN doc_qrel :
        /\ Len(rel_csv) = 2
        /\ \E r \in 1..2 :
              /\ rel_csv[r] = [review_doi |-> dict_review[t].review_doi, pubmed_id |-> "p1",
                               ref_type |-> "excluded"]
              /\ rel_csv[3 - r] = [review_doi |-> dict_review[t].review_doi,
                                   pubmed_id |-> "p2", ref_type |-> "other"]
        /\ [i \in 1..Len(abs_qrel[t]) |-> <<abs_qrel[t][i].pid, abs_qrel[t][i].rel>>]
               = << <<"p1", 1>>, <<"p2", 0>> >>
        /\ [i \in 1..Len(doc_qrel[t]) |-> <<doc_qrel[t][i].pid, doc_qrel[t][i].rel>>]
               = << <<"p1", 0>>, <<"p2", 0>> >>

\* the place of an identifier's first occurrence in a list
First(lines, x) == CHOOSE i \in 1..Len(lines) : lines[i] = x /\ \A j \in 1..(i - 1) : lines[j] # x

\* one line for every distinct identifier of the list, in the order of the
\* first occurrences
OncePerPid(lines, list) ==
    /\ Len(lines) = Cardinality({list[i] : i \in 1..Len(list)})
    /\ \A i \in 1..Len(lines) : \E j \in 1..Len(list) : list[j] = lines[i].pid
    /\ \A i, j \in 1..Len(lines) : i < j => lines[i].pid # lines[j].pid
    /\ \A i, j \in 1..Len(lines) : i < j => First(list, lines[i].pid) < First(list, lines[j].pid)

\* C3: whatever duplicates a topic's identifier list holds, its abstract-level
\* and document-level judgment files hold exactly one line for every distinct
\* identifier of the list, in the order of the first occurrences.
C3_OneLinePerPid ==
    /\ \A t \in DOMAIN abs_qrel : OncePerPid(abs_qrel[t], pids[t])
    /\ \A t \in DOMAIN doc_qrel : OncePerPid(doc_qrel[t], pids[t])

\* a list of three lines with one identifier twice gave two lines in both files
C3_Witness ==
    \E t \in DOMAIN abs_qrel \cap DOMAIN doc_qrel :
        /\ Len(pids[t]) = 3
        /\ pids[t][1] = pids[t][3]
        /\ pids[t][1] # pids[t][2]
        /\ Len(abs_qrel[t]) = 2
        /\ Len(doc_qrel[t]) = 2
        /\ abs_qrel[t][1].pid = pids[t][1]
        /\ doc_qrel[t][2].pid = pids[t][2]

\* the release files of the kind make_release_file was called for
ReleaseDir == IF qrel_type = "abs" THEN abs_qrel ELSE IF qrel_type = "doc" THEN doc_qrel ELSE topic_dir

\* C9: make_release_file ends in an AssertionError when a file of the
\* identifier-list directory is no topic of the spreadsheet, whatever the kind:
\* it cannot return, no release file is written for that file, and no file
\* that the loop had still to visit is written in that call.
C9_AssertMissingTopic ==
    /\ pc = "ret_make_release_file" => DOMAIN pids \subseteq DOMAIN dict_review
    /\ \A t \in DOMAIN pids \ DOMAIN dict_review :
          /\ t \notin DOMAIN topic_dir \cup DOMAIN abs_qrel \cup DOMAIN doc_qrel
          /\ (pc \in {"mr_loop", "crashed"} /\ \A i \in 1..Len(todo) : todo[i] # t)
                => (pc = "crashed" /\ err = "AssertionError" /\ cur = t)
    /\ (pc = "crashed" /\ qrel_type \in Kinds) =>
          /\ err = "AssertionError"
          /\ cur \in DOMAIN pids \ DOMAIN dict_review
          /\ \A i \in 1..Len(todo) : todo[i] \notin DOMAIN ReleaseDir

\* the document-level call died on the stray file after it wrote the file of
\* one topic and before it reached the other
C9_Witness ==
    /\ pc = "crashed"
    /\ err = "AssertionError"
    /\ qrel_type = "doc"
    /\ cur = StrayTopic
    /\ todo # <<>>
    /\ DOMAIN doc_qrel # {}
    /\ StrayTopic \notin DOMAIN doc_qrel

\* ------------------------------------------------------------------------
\* Abstract Fetcher: download_abstract
\* ------------------------------------------------------------------------
AbstractFrame ==
    UNCHANGED <<calls, chunkVars, inputVars, download_pids, pids, log, title_txt, topic_dir,
                abs_qrel, doc_qrel, collectorVars, releaseVars, statsVars>>

\* what the API answers to a request for ids
Response(ids) == [db |-> "pubmed", id |-> ids]

\* download_abstract starts the loop over get_file_ids(PIDS_DIR)
download_abstract ==
    /\ pc = "download_abstract"
    /\ \E order \in Perms(DOMAIN pids) : todo' = order
    /\ pc' = "da_loop"
    /\ UNCHANGED <<err, cur, corpora, requests, blocks>>
    /\ AbstractFrame

\* for topic_id in get_file_ids(PIDS_DIR): the deduplicated list is read, the
\* topic's directory made and the list cut into chunks of 500
da_topic ==
    /\ pc = "da_loop"
    /\ todo # <<>>
    /\ cur' = Head(todo)
    /\ todo' = Tail(todo)
    /\ corpora' = IF cur' \in DOMAIN corpora THEN corpora ELSE Put(corpora, cur', Empty)
    /\ blocks' = chunks_by_element(dedup(pids[cur']), ABSTRACT_BATCH)
    /\ pc' = "da_request"
    /\ UNCHANGED <<err, requests>>
    /\ AbstractFrame

\* a request whose exception is caught: the block is left out and the loop
\* goes on
da_request_swallow ==
    /\ pc = "da_request"
    /\ IF blocks = <<>>
       THEN pc' = "da_loop" /\ UNCHANGED <<corpora, requests, blocks>>
       ELSE LET all == chunks_by_element(dedup(pids[cur]), ABSTRACT_BATCH)
                block == Len(all) - Len(blocks)
            IN  /\ requests' = Append(requests, [topic |-> cur, id |-> Head(blocks)])
                /\ corpora' =
                       IF api = Len(requests) + 1 THEN corpora
                       ELSE [corpora EXCEPT ![cur] = Put(@, block, Response(Head(blocks)))]
                /\ blocks' = Tail(blocks)
                /\ pc' = "da_request"
    /\ UNCHANGED <<err, todo, cur>>
    /\ AbstractFrame

\* for block, pids in enumerate(...): one request, whose exception nobody
\* catches, and the response written to the file named by the block's number;
\* after the last block sleep(5)
da_request ==
    /\ pc = "da_request"
    /\ IF blocks = <<>>
       THEN pc' = "da_loop" /\ UNCHANGED <<err, corpora, requests, blocks>>
       ELSE LET all == chunks_by_element(dedup(pids[cur]), ABSTRACT_BATCH)
                block == Len(all) - Len(blocks)
            IN  /\ requests' = Append(requests, [topic |-> cur, id |-> Head(blocks)])
                /\ IF api = Len(requests) + 1
                   THEN Raise("ConnectionError") /\ UNCHANGED <<corpora, blocks>>
                   ELSE /\ corpora' =
                               [corpora EXCEPT ![cur] = Put(@, block, Response(Head(blocks)))]
                        /\ blocks' = Tail(blocks)
                        /\ pc' = "da_request"
                        /\ UNCHANGED err
    /\ UNCHANGED <<todo, cur>>
    /\ AbstractFrame

\* the loop is over: download_abstract returns
da_return ==
    /\ pc = "da_loop"
    /\ todo = <<>>
    /\ pc' = "ret_download_abstract"
    /\ UNCHANGED <<err, todo, cur, corpora, requests, blocks>>
    /\ AbstractFrame

\* ------------------------------------------------------------------------
\* Statistics
\* ------------------------------------------------------------------------
StatsFrame ==
    UNCHANGED <<calls, chunkVars, inputVars, fsVars, collectorVars, releaseVars, abstractVars>>

\* df.loc[df['RELEVANCY'] == 1].ix[:, 'RELEVANCY'].count()
rel_count(lines) == Cardinality({i \in 1..Len(lines) : lines[i].rel = 1})

\* (total_num, rel_abs_num, rel_content_num) of a topic
topic_counts(t) == <<Len(abs_qrel[t]), rel_count(abs_qrel[t]), rel_count(doc_qrel[t])>>

RECURSIVE sum(_, _)
\* sum(x for (...) in stats) of the i-th count
sum(list, i) == IF list = <<>> THEN 0 ELSE list[1][i] + sum(Tail(list), i)

\* statistics starts the loop over get_file_ids(dir_qrel_abs)
statistics ==
    /\ pc = "statistics"
    /\ stats' = <<>>
    /\ \E order \in Perms(DOMAIN abs_qrel) : todo' = order
    /\ pc' = "st_loop"
    /\ UNCHANGED <<err, cur, totals>>
    /\ StatsFrame

\* a loop that reads the document-level judgments only where they exist
st_topic_lenient ==
    /\ pc = "st_loop"
    /\ todo # <<>>
    /\ cur' = Head(todo)
    /\ todo' = Tail(todo)
    /\ IF abs_qrel[cur'] = <<>>
       THEN Raise("EmptyDataError") /\ UNCHANGED stats
       ELSE /\ stats' = Append(stats, <<Len(abs_qrel[cur']), rel_count(abs_qrel[cur']),
                                        IF cur' \in DOMAIN doc_qrel
                                        THEN rel_count(doc_qrel[cur']) ELSE 0>>)
            /\ pc' = "st_loop"
            /\ UNCHANGED err
    /\ UNCHANGED totals
    /\ StatsFrame

\* for topic_id in get_file_ids(dir_qrel_abs): read_csv of the abstract-level
\* file, which fails on a file without rows, read_csv of the document-level
\* file of the same name, which fails without the file or without rows, and
\* the topic's counts and percentages
st_topic ==
    /\ pc = "st_loop"
    /\ todo # <<>>
    /\ cur' = Head(todo)
    /\ todo' = Tail(todo)
    /\ IF abs_qrel[cur'] = <<>>
       THEN Raise("EmptyDataError") /\ UNCHANGED stats
       ELSE IF cur' \notin DOMAIN doc_qrel
       THEN Raise("IOError") /\ UNCHANGED stats
       ELSE IF doc_qrel[cur'] = <<>>
       THEN Raise("EmptyDataError") /\ UNCHANGED stats
       ELSE /\ stats' = Append(stats, topic_counts(cur'))
            /\ pc' = "st_loop"
            /\ UNCHANGED err
    /\ UNCHANGED totals
    /\ StatsFrame

\* in total: the sums, and the percentages of the sum of the totals
st_total ==
    /\ pc = "st_loop"
    /\ todo = <<>>
    /\ IF sum(stats, 1) = 0
       THEN Raise("ZeroDivisionError") /\ UNCHANGED totals
       ELSE /\ totals' = <<sum(stats, 1), sum(stats, 2), sum(stats, 3)>>
            /\ pc' = "ret_statistics"
            /\ UNCHANGED err
    /\ UNCHANGED <<todo, cur, stats>>
    /\ StatsFrame
\* a judgment file of a topic with the given flags
JudgmentFile(t, flags) ==
    [i \in 1..Len(flags) |->
        [review |-> AllReviews[t].review_doi, iteration |-> 0, pid |-> ToString(i),
         rel |-> flags[i]]]

\* the judgment directories statistics can find: any topic with or without a
\* file, any file with up to MaxStatRows lines
JudgmentDirs ==
    UNION {{[t \in S |-> JudgmentFile(t, f[t])] : f \in [S -> SeqUpTo({0, 1}, MaxStatRows)]} :
              S \in SUBSET Topics}

InitStats ==
    /\ pc = "statistics"
    /\ err = ""
    /\ calls = <<>>
    /\ ChunkIdle /\ LoopIdle /\ InputsIdle
    /\ CollectorIdle /\ ReleaseIdle /\ AbstractIdle /\ StatsIdle
    /\ download_pids = Empty
    /\ pids = Empty
    /\ log = <<>>
    /\ title_txt = <<>>
    /\ topic_dir = Empty
    /\ corpora = Empty
    /\ abs_qrel \in JudgmentDirs
    /\ doc_qrel \in JudgmentDirs

NextStats == statistics \/ st_topic \/ st_total

SpecStats == InitStats /\ [][NextStats]_vars

RECURSIVE SumOver(_, _)
\* the sum of f over a set of topics
SumOver(S, f) ==
    IF S = {} THEN 0
    ELSE LET t == CHOOSE x \in S : TRUE IN f[t] + SumOver(S \ {t}, f)

\* the grand totals are the sums of the counts of the topics that have a file
\* of abstract-level judgments
TotalsAreSums ==
    totals = <<SumOver(DOMAIN abs_qrel, [t \in DOMAIN abs_qrel |-> Len(abs_qrel[t])]),
               SumOver(DOMAIN abs_qrel, [t \in DOMAIN abs_qrel |-> rel_count(abs_qrel[t])]),
               SumOver(DOMAIN abs_qrel, [t \in DOMAIN abs_qrel |-> rel_count(doc_qrel[t])])>>

\* a topic is in one of the two judgment directories and not in the other
InOneDirOnly ==
    \E t \in DOMAIN abs_qrel \cup DOMAIN doc_qrel :
        t \notin DOMAIN abs_qrel \/ t \notin DOMAIN doc_qrel

\* a topic has no row
ZeroRows == \E t \in DOMAIN abs_qrel : abs_qrel[t] = <<>>

StatsCrash ==
    \/ DOMAIN abs_qrel = {}
    \/ \E t \in DOMAIN abs_qrel :
          \/ abs_qrel[t] = <<>>
          \/ t \notin DOMAIN doc_qrel
          \/ doc_qrel[t] = <<>>

PortalRec(ui, date) == [ui |-> ui, date |-> date]

\* what the portal answers in a run of the script: a result page that times
\* out, or a search with no, one or two results, the last with one identifier
\* twice
RunAnswers ==
    {[kind |-> "timeout", recs |-> <<>>, fail_at |-> 0]}
        \cup {[kind |-> "ok", recs |-> r, fail_at |-> 0] :
                r \in {<<>>,
                       <<PortalRec("p1", 20170301)>>,
                       <<PortalRec("p1", 20170301), PortalRec("p2", 20180101),
                         PortalRec("p1", 20170401)>>}}

\* a checkout before any run, and what the portal, the reviews' pages, the
\* curated table and the API will answer
Init ==
    /\ pc = "main"
    /\ err = ""
    /\ calls = <<>>
    /\ ChunkIdle /\ FsEmpty /\ LoopIdle
    /\ CollectorIdle /\ ReleaseIdle /\ AbstractIdle /\ StatsIdle
    /\ dict_review = AllReviews
    /\ portal \in [Topics -> RunAnswers]
    /\ rel_csv \in {<<>>, <<[review_doi |-> "CD1", pubmed_id |-> "p1", ref_type |-> "excluded"]>>}
    /\ site \in {[t \in Topics |-> "title"], [t \in Topics |-> IF t = "2" THEN "exc" ELSE "title"]}
    /\ api \in 0..1

Next ==
    \/ main_collect
    \/ batch_download_pid
    \/ bdp_loop
    \/ download_pid_by_topic_id
    \/ main_extract
    \/ extract_pid
    \/ ex_topic
    \/ ex_return
    \/ main_title
    \/ batch_download_title
    \/ download_title_by_url
    \/ bt_return
    \/ main_release_topic
    \/ make_release_file
    \/ mr_topic
    \/ mr_return
    \/ main_release_abs
    \/ main_release_doc
    \/ main_abstract
    \/ download_abstract
    \/ da_topic
    \/ da_request
    \/ da_return
    \/ main_statistics
    \/ statistics
    \/ st_topic
    \/ st_total
    \/ main_exit

Spec == Init /\ [][Next]_vars

\* the stages called so far (check_existing, which only makes the
\* directories, is no stage)
StagesCalled == SelectSeq(calls, LAMBDA c : c # "check_existing")

\* the order of the stages of the overview
StagesOfOverview ==
    <<"batch_download_pid", "extract_pid", "batch_download_title", "make_release_file('topic')",
      "make_release_file('abs')", "make_release_file('doc')", "download_abstract",
      "trec_format_abstract", "statistics">>

\* C7: a run of the entry point executes the stages in the order of the
\* overview, each once and each after the one before it has returned: PID
\* Collector, PID Extractor, title download, Release Builder for 'topic',
\* 'abs' and 'doc', Abstract Fetcher, Formatter, Statistics; a run that
\* reaches its end has left out none.
C7_FullPipeline ==
    /\ Len(StagesCalled) <= Len(StagesOfOverview)
    /\ StagesCalled = SubSeq(StagesOfOverview, 1, Len(StagesCalled))
    /\ pc = "exit" => StagesCalled = StagesOfOverview

\* ------------------------------------------------------------------------
\* download_abstract, called on the identifier lists that extract_pid left
\* ------------------------------------------------------------------------
\* an identifier list of k distinct lines
LongList(k) == [i \in 1..k |-> ToString(i)]

\* the lengths around one and two requests of 500
LongSizes == {ABSTRACT_BATCH - 1, ABSTRACT_BATCH, ABSTRACT_BATCH + 1, 2 * ABSTRACT_BATCH + 1}

\* the identifier lists tried: every short list with its duplicates for both
\* topics, and for one topic a long list that ends with its first line again
PidLists ==
    [Topics -> SeqUpTo(Pids, MaxPidLines)]
        \cup {[x \in Topics |-> IF x = t THEN LongList(k) \o <<"1">> ELSE <<"p1">>] :
                t \in Topics, k \in LongSizes}

InitAbstract ==
    /\ pc = "download_abstract"
    /\ err = ""
    /\ calls = <<>>
    /\ ChunkIdle /\ LoopIdle
    /\ CollectorIdle /\ ReleaseIdle /\ AbstractIdle /\ StatsIdle
    /\ dict_review = AllReviews
    /\ portal = Empty
    /\ rel_csv = <<>>
    /\ site = Empty
    /\ api \in 0..MaxFailAt
    /\ download_pids = Empty
    /\ pids \in PidLists
    /\ log = <<>>
    /\ title_txt = <<>>
    /\ topic_dir = Empty
    /\ abs_qrel = Empty
    /\ doc_qrel = Empty
    /\ corpora = Empty

NextAbstract == download_abstract \/ da_topic \/ da_request \/ da_return

SpecAbstract == InitAbstract /\ [][NextAbstract]_vars

\* the requests made for a topic, in order
RequestsOf(t) == SelectSeq(requests, LAMBDA r : r.topic = t)

\* the identifiers sent for a topic, in order
Sent(t) == Concat([k \in 1..Len(RequestsOf(t)) |-> RequestsOf(t)[k].id])

\* the number of distinct identifiers of a topic's list
DistinctPids(t) == Cardinality({pids[t][i] : i \in 1..Len(pids[t])})

\* ceil(d / 500)
CeilBatches(d) == (d + 499) \div 500

\* the loop has left the topic behind
Fetched(t) ==
    /\ t \in DOMAIN corpora
    /\ pc # "crashed"
    /\ t # cur \/ pc \in {"da_loop", "ret_download_abstract"}

\* the request that failed is the last one made
Failed == api > 0 /\ Len(requests) >= api

\* the requests of a topic that were answered
Answered(t) ==
    IF Failed /\ requests[api].topic = t
    THEN SubSeq(RequestsOf(t), 1, Len(RequestsOf(t)) - 1)
    ELSE RequestsOf(t)

\* the place of the first occurrence of every line of a list
FirstPlaces(list) ==
    [x \in {list[i] : i \in 1..Len(list)} |-> First(list, x)]

\* the requests of a topic send every identifier once, at most 500 in a
\* request and 500 in all but the last, in the order of the list
InListOrder(reqs, sent, list, place) ==
    /\ Cardinality({sent[i] : i \in 1..Len(sent)}) = Len(sent)
    /\ {sent[i] : i \in 1..Len(sent)} \subseteq DOMAIN place
    /\ \A i \in 1..(Len(sent) - 1) : place[sent[i]] < place[sent[i + 1]]
    /\ \A k \in 1..Len(reqs) :
          /\ Len(reqs[k].id) \in 1..500
          /\ k < Len(reqs) => Len(reqs[k].id) = 500

\* the k-th response is in file k - 1 of the topic's directory
InNumberedFiles(t, answered) ==
    IF t \in DOMAIN corpora
    THEN /\ DOMAIN corpora[t] = 0..(Len(answered) - 1)
         /\ \A k \in 1..Len(answered) : corpora[t][k - 1] = Response(answered[k].id)
    ELSE answered = <<>>

\* C11: for every topic download_abstract makes ceil(D/500) requests, D the
\* number of distinct identifiers of the topic's list; every distinct
\* identifier is sent in one request and only once, a request carries at most
\* 500 identifiers, in the order of the list, and the k-th response is
\* written to file k - 1 of the topic's directory.  A request that fails ends
\* the run: it is not repeated and no later block or topic is requested.
C11_Requests ==
    /\ \A t \in DOMAIN pids :
          LET reqs == RequestsOf(t)
              sent == Sent(t)
              d == DistinctPids(t)
          IN  /\ Len(reqs) <= CeilBatches(d)
              /\ Fetched(t) => (Len(reqs) = CeilBatches(d) /\ Len(sent) = d)
              /\ reqs # <<>> => InListOrder(reqs, sent, pids[t], FirstPlaces(pids[t]))
              /\ InNumberedFiles(t, Answered(t))
              /\ t \notin DOMAIN corpora => reqs = <<>>
    /\ api > 0 => Len(requests) <= api
    /\ Failed <=> pc = "crashed"
    /\ pc = "crashed" =>
          /\ err = "ConnectionError"
          /\ requests[api].topic = cur
          /\ \A i \in 1..Len(todo) : todo[i] \notin DOMAIN corpora

\* a list of 1001 distinct identifiers and one duplicate was fetched with
\* three requests, of 500, 500 and 1 identifiers, into the files 0, 1 and 2
C11_Witness ==
    \E t \in DOMAIN pids :
        /\ Len(pids[t]) = 1002
        /\ DistinctPids(t) = 1001
        /\ Fetched(t)
        /\ Len(RequestsOf(t)) = 3
        /\ Len(RequestsOf(t)[3].id) = 1
        /\ DOMAIN corpora[t] = {0, 1, 2}

\* the second request failed: one file was written and the run is over
C11_WitnessFailure ==
    /\ pc = "crashed"
    /\ api = 2
    /\ Len(RequestsOf(cur)) = 2
    /\ DOMAIN corpora[cur] = {0}
    /\ todo # <<>>

\* ------------------------------------------------------------------------
\* the ranges exported for a topic
\* ------------------------------------------------------------------------
\* the exports made for a topic, in order
ExportsOf(t) == SelectSeq(exports, LAMBDA x : x.topic = t)

\* download_pid_by_topic_id has returned for the topic
Returned(t) == Count(events, <<"quit", t>>) = 1 /\ ~(pc = "crashed" /\ cur = t)

\* the topics whose search reports its results: no timeout, no syntax error
Reported == {t \in DOMAIN portal : portal[t].kind = "ok"}

\* the i-th export has the range 500 (i - 1) + 1 to min(500 i, N)
RangesAsClaimed(xs, N) ==
    /\ \A i \in 1..Len(xs) :
          /\ xs[i].lo = 500 * (i - 1) + 1
          /\ xs[i].hi = IF 500 * i < N THEN 500 * i ELSE N
    /\ \A i, j \in 1..Len(xs) : i < j => xs[i].hi < xs[j].lo
    /\ Len(xs) <= (N + 499) \div 500

\* C12: for a topic whose search reports N results, without timeout and
\* without syntax error, download_pid_by_topic_id makes ceil(N/500) exports,
\* the i-th with the range 500(i-1)+1 to min(500 i, N): the ranges are made in
\* ascending order, are disjoint and cover exactly 1..N; with N = 0 there is
\* no export.
C12_ExportRanges ==
    \A t \in Reported :
        LET xs == ExportsOf(t)
            N == Len(portal[t].recs)
        IN  /\ RangesAsClaimed(xs, N)
            /\ Returned(t) =>
                  /\ Len(xs) = (N + 499) \div 500
                  /\ UNION {xs[i].lo..xs[i].hi : i \in 1..Len(xs)} = 1..N
                  /\ Len(download_pids[t]) = Len(xs)

\* a search with 1001 results was exported as 1-500, 501-1000, 1001-1001, and
\* a search without results was not exported at all
C12_Witness ==
    \E t, u \in Reported :
        /\ Returned(t)
        /\ Len(portal[t].recs) = 1001
        /\ [i \in 1..Len(ExportsOf(t)) |-> <<ExportsOf(t)[i].lo, ExportsOf(t)[i].hi>>]
               = << <<1, 500>>, <<501, 1000>>, <<1001, 1001>> >>
        /\ Returned(u)
        /\ portal[u].recs = <<>>
        /\ ExportsOf(u) = <<>>

\* ------------------------------------------------------------------------
\* the browser sessions of batch_download_pid
\* ------------------------------------------------------------------------
\* download_pid_by_topic_id is not running: between two topics, after the
\* last one, or after the exception that ended the run
Outside == pc \in {"batch_download_pid", "bdp_loop", "ret_batch_download_pid", "crashed"}

\* C13: at most one browser session is open at any time of
\* batch_download_pid: the session of a topic is quit before the session of
\* the next topic is opened and on every path out of download_pid_by_topic_id
\* (return, timeout, syntax error, an exception while the query is submitted
\* or while a range is exported), and the pause comes before every quit.
C13_SessionAlwaysQuit ==
    /\ sessions <= 1
    /\ \A i \in 1..Len(events) :
          events[i][1] = "open" =>
             /\ \A j \in (i + 1)..Len(events) :
                   events[j][1] = "open" =>
                      \E k \in (i + 1)..(j - 1) : events[k] = <<"quit", events[i][2]>>
             /\ Outside => \E k \in (i + 1)..Len(events) : events[k] = <<"quit", events[i][2]>>
    /\ \A i \in 1..Len(events) :
          events[i][1] = "quit" => (i > 1 /\ events[i - 1] = <<"sleep", events[i][2]>>)
    /\ Outside => sessions = 0

\* ------------------------------------------------------------------------
\* the two judgment files of a topic, side by side
\* ------------------------------------------------------------------------
\* the rows of the table that judge one pair with different labels
Conflicting ==
    \E i, j \in 1..Len(rel_csv) :
        /\ i < j
        /\ rel_csv[i].review_doi = rel_csv[j].review_doi
        /\ rel_csv[i].pubmed_id = rel_csv[j].pubmed_id
        /\ {rel_csv[i].ref_type, rel_csv[j].ref_type} = {"included", "excluded"}

\* C14: whatever the curated table, rows with conflicting labels for one pair
\* included, the abstract-level and the document-level file made from a
\* topic's identifier list have the same identifiers in the same order, and a
\* line with document-level flag 1 has abstract-level flag 1: the
\* document-level file has no more relevant lines than the abstract-level one.
C14_DocImpliesAbs ==
    \A t \in DOMAIN abs_qrel \cap DOMAIN doc_qrel :
        /\ Len(abs_qrel[t]) = Len(doc_qrel[t])
        /\ \A i \in 1..Len(doc_qrel[t]) :
              /\ i <= Len(abs_qrel[t])
              /\ abs_qrel[t][i].pid = doc_qrel[t][i].pid
              /\ abs_qrel[t][i].review = doc_qrel[t][i].review
              /\ doc_qrel[t][i].rel = 1 => abs_qrel[t][i].rel = 1
        /\ Cardinality({i \in 1..Len(doc_qrel[t]) : doc_qrel[t][i].rel = 1})
              <= Cardinality({i \in 1..Len(abs_qrel[t]) : abs_qrel[t][i].rel = 1})

\* a pair judged 'included' and then 'excluded' has flag 1 in the
\* abstract-level and flag 0 in the document-level file, on the same line
C14_Witness ==
    \E t \in DOMAIN abs_qrel \cap DOMAIN doc_qrel :
        /\ Conflicting
        /\ rel_csv[1].review_doi = dict_review[t].review_doi
        /\ rel_csv[1].ref_type = "included"
        /\ \E i \in 1..Len(doc_qrel[t]) :
              /\ doc_qrel[t][i].pid = rel_csv[1].pubmed_id
              /\ abs_qrel[t][i].pid = rel_csv[1].pubmed_id
              /\ abs_qrel[t][i].rel = 1
              /\ doc_qrel[t][i].rel = 0
        /\ Len(doc_qrel[t]) = 2

====
